---------------------------- MODULE Spec2Model ----------------------------
(***************************************************************************)
(* A model of the WebSQL request executor of ydn-db (ydn.db.req.WebSql):   *)
(* the batch operations putObjects / getByIds / getByKeys with their       *)
(* windows of native requests, and fetch with its row loop.                *)
(*                                                                         *)
(* JavaScript arrays are modelled as functions over 0..n-1 so that the     *)
(* index arithmetic of the source (i + REQ_PER_TX, idx >= start) is kept   *)
(* as written.  JavaScript values are tagged records: [t, v].              *)
(***************************************************************************)
EXTENDS Integers, Sequences, FiniteSets, TLC

(***************************************************************************)
(* Bounds of the model.                                                    *)
(***************************************************************************)
\* longest input of getByIds / getByKeys (one more than the read window)
MaxGetN == 11
\* longest input of putObjects (twice the write window)
MaxPutN == 4
\* most native requests of one batch operation that the backend fails
MaxFail == 2
\* inputs longer than this start the id cycle at offset 0 only
MaxVariedN == 3
\* fetch: the store holds objects with ids among 1..MaxRows
MaxRows == 3
\* fetch: max and skip are absent or among 0..MaxArg
MaxArg == 2

(***************************************************************************)
(* Program constants.                                                      *)
(***************************************************************************)
REQ_PER_TX == 10

RW_REQ_PER_TX == 2

(***************************************************************************)
(* JavaScript values.                                                      *)
(***************************************************************************)
Undef == [t |-> "undefined", v |-> 0]

Null == [t |-> "null", v |-> 0]

NaN == [t |-> "NaN", v |-> 0]

Num(n) == [t |-> "number", v |-> n]

\* the decimal string of n, such as "30"
Str(n) == [t |-> "string", v |-> n]

\* a slot of an array that was never assigned
Hole == [t |-> "hole", v |-> 0]

isDef(x) == x.t # "undefined"

\* parseInt(x, 10) on the values of the model
parseInt(x) ==
  CASE x.t = "number" -> x
    [] x.t = "string" -> Num(x.v)
    [] OTHER -> NaN

(***************************************************************************)
(* Arrays, 0-based.                                                        *)
(***************************************************************************)
EmptyArr == [j \in {} |-> Hole]

ArrLen(a) == Cardinality(DOMAIN a)

\* a[i] = x of JavaScript: the array grows to hold index i
ArrSet(a, i, x) ==
  LET n == IF i + 1 > ArrLen(a) THEN i + 1 ELSE ArrLen(a)
  IN  [j \in 0..(n - 1) |-> IF j = i THEN x
                            ELSE IF j \in DOMAIN a THEN a[j] ELSE Hole]

\* a.push(x)
ArrPush(a, x) == ArrSet(a, ArrLen(a), x)

(***************************************************************************)
(* Schema and native rows.  Stores "s1" and "s2" have key path "id", store *)
(* "s3" has no key path (its key column is the row id); every store has    *)
(* one index, "age", declared INTEGER.  A native row holds the key column, *)
(* the index column and the serialised object.                             *)
(***************************************************************************)
StoreNames == {"s1", "s2", "s3"}

\* schema.getStore(name): is the store in the schema
getStore(name) == name \in StoreNames

\* store.keyPath, "none" when the store declares no key path
keyPath(name) == IF name = "s3" THEN "none" ELSE "id"

Obj(id, age) == [id |-> id, age |-> age]

Row(key, age, blob) == [key |-> key, age |-> age, blob |-> blob]

\* table.getIndexedValues(obj): the key and the column values of an object
getIndexedValues(obj) ==
  [key |-> obj.id,
   age |-> IF isDef(obj.age) THEN obj.age ELSE Null,
   blob |-> obj]

\* parseRow(table, row): the object of a native row
parseRow(row) ==
  LET value == [row.blob EXCEPT !.id = row.key]
      x == row.age
  IN  IF ~isDef(x) THEN value
      ELSE [value EXCEPT !.age = parseInt(x)]

\* the stored row of an object whose key is given
RowOf(obj) == Row(obj.id, getIndexedValues(obj).age, obj)

\* content of the database when an operation starts
InitDb ==
  [s \in StoreNames |->
     IF s = "s1"
     THEN {RowOf(Obj(Num(1), Num(30))), RowOf(Obj(Num(3), Str(41)))}
     ELSE {RowOf(Obj(Num(5), Num(12)))}]

\* SELECT * FROM store WHERE key = ?: the rows of the result set
SelectByKey(d, store, id) == {r \in d[store] : r.key = id}

\* the row id SQLite gives to a row inserted without a key
NewRowId(d, store) ==
  LET ks == {r.key.v : r \in d[store]}
  IN  IF ks = {} THEN 1 ELSE 1 + (CHOOSE m \in ks : \A k \in ks : k <= m)

InsertNewRow(d, store, out) ==
  LET key == Num(NewRowId(d, store))
  IN  [db |-> [d EXCEPT ![store] = @ \cup {Row(key, out.age, out.blob)}],
       insertId |-> key]

\* INSERT OR REPLACE INTO store: the new content and results.insertId
InsertOrReplace(d, store, out) ==
  LET key == IF isDef(out.key) THEN out.key ELSE Num(NewRowId(d, store))
  IN  [db |-> [d EXCEPT ![store] =
                 {r \in @ : r.key # key} \cup {Row(key, out.age, out.blob)}],
       insertId |-> key]

(***************************************************************************)
(* State.                                                                  *)
(***************************************************************************)
VARIABLES
  op,            \* the operation the executor was called with, or "idle"
  db,            \* the native database: store name -> set of rows
  items,         \* putObjects: objects; getByIds: ids; getByKeys: keys
  status,        \* per input item: "unsent", "inflight", "ok" or "failed"
  objects,       \* the output array (result_keys in putObjects)
  result_count,  \* completions counted by the success callbacks
  callbacks,     \* number of calls of df.callback
  errbacks,      \* number of calls of df.errback
  delivered,     \* the argument of df.callback
  thrown,        \* the exception thrown out of the executor, or "none"
  call,          \* fetch: the arguments [q, max, skip]
  sql,           \* fetch: the command given to tx.executeSql
  scan,          \* fetch: what the row loop of the callback did
  log,           \* the operations that completed, oldest first
  thisFilter,    \* IterableQuery: this.filter
  origFilter,    \* IterableQuery: the filter the constructor was given
  applied,       \* IterableQuery: the where conditions processed so far
  stack,         \* SimpleStorage: the calls of doTransaction not yet ended
  events         \* SimpleStorage: what the caller and the bodies observed

batchVars == <<items, status, objects, result_count>>

dfVars == <<callbacks, errbacks, delivered, thrown>>

fetchVars == <<call, sql, scan>>

storeVars == <<log>>

whereVars == <<thisFilter, origFilter, applied>>

txVars == <<stack, events>>

\* the state of the query object and of the in-memory adapter
otherVars == <<whereVars, txVars>>

NoCall == [t |-> "none", v |-> 0]

NoSql == [t |-> "none", v |-> 0]

NoScan == [t |-> "none", v |-> 0]

NotDelivered == [t |-> "none", v |-> 0]

\* no IterableQuery was constructed yet
NoQuery == [t |-> "none", v |-> 0]

BatchOps == {"putObjects", "getByIds", "getByKeys"}

(***************************************************************************)
(* Inputs of the batch operations.  An item is [store, id, obj]: the store *)
(* and id of a key, or the object to put.  The ids cycle through 5, 1, 3   *)
(* from a chosen offset (store "s1" holds 1 and 3; 5 is a miss there).     *)
(***************************************************************************)
IdCycle == <<5, 1, 3>>

PutPool ==
  <<Obj(Undef, Num(20)), Obj(Num(1), Str(30)), Obj(Num(7), Undef)>>

Item(store, id, obj) == [store |-> store, id |-> id, obj |-> obj]

\* ids of getByIds(table, ids): n ids from offset r of the cycle
IdsInput(table, n, r) ==
  [i \in 0..(n - 1) |-> Item(table, Num(IdCycle[((i + r) % 3) + 1]), Undef)]

\* keys of getByKeys(keys): stores alternate; key number bad names a store
\* that is not in the schema
KeysInput(n, r, bad) ==
  [i \in 0..(n - 1) |->
     Item(IF i = bad THEN "nostore" ELSE IF i % 2 = 0 THEN "s1" ELSE "s2",
          Num(IdCycle[((i + r) % 3) + 1]), Undef)]

\* objects of putObjects(table, objects)
ObjectsInput(table, n, r) ==
  [i \in 0..(n - 1) |->
     LET o == PutPool[((i + r) % 3) + 1] IN Item(table, o.id, o)]

(***************************************************************************)
(* The batch operations: putObjects, getByIds, getByKeys.                  *)
(***************************************************************************)
\* the number of requests an operation keeps in flight
Window(o) == IF o = "putObjects" THEN RW_REQ_PER_TX ELSE REQ_PER_TX

InFlight == {i \in DOMAIN status : status[i] = "inflight"}

Failed == {i \in DOMAIN status : status[i] = "failed"}

Unsent == {i \in DOMAIN status : status[i] = "unsent"}

\* get(i, tx) of getByKeys looks the store of key i up and throws when it is
\* missing; putObjects and getByIds looked their one store up before
StoreFound(o, item) == o # "getByKeys" \/ getStore(item.store)

LoopLimitAll(w, n) == n

\* for (i = 0; i < W && i < length; i++): the end of the first loop
LoopLimit(w, n) == IF w < n THEN w ELSE n

\* the items the first loop sends, and whether it ended by a throw
FirstLoop(o, arr) ==
  LET lim == LoopLimit(Window(o), ArrLen(arr))
      bad == {i \in 0..(lim - 1) : ~StoreFound(o, arr[i])}
      stop == IF bad = {} THEN lim
              ELSE CHOOSE m \in bad : \A k \in bad : m <= k
  IN  [sent |-> 0..(stop - 1), thrown |-> bad # {}]

AllDoneOffByOne(cnt, n) == cnt >= n - 1

\* result_count == objects.length
AllDone(cnt, n) == cnt = n

StoreResultPush(arr, i, x) == ArrPush(arr, x)

\* objects[i] = x (result_keys[i] = key)
StoreResult(arr, i, x) == ArrSet(arr, i, x)

NextIndexSkipping(i, w) == i + w + 1

\* var next = i + REQ_PER_TX
NextIndex(i, w) == i + w

\* the value a success callback stores for item i, given the native answer
GetValue(rows) ==
  IF rows # {} THEN parseRow(CHOOSE r \in rows : TRUE) ELSE Undef

PutValue(out, insertId) == IF isDef(out.key) THEN out.key ELSE insertId

\* putObjects / getByIds / getByKeys up to their return
Call(o, arr, table) ==
  /\ op = "idle"
  /\ op' = o
  /\ items' = arr
  /\ objects' = EmptyArr
  /\ result_count' = 0
  /\ UNCHANGED <<db, errbacks, fetchVars, storeVars, otherVars>>
  /\ IF o # "getByKeys" /\ ~getStore(table)
     THEN /\ thrown' = "NotFoundError"
          /\ status' = [i \in DOMAIN arr |-> "unsent"]
          /\ UNCHANGED <<callbacks, delivered>>
     ELSE IF ArrLen(arr) > 0
     THEN LET f == FirstLoop(o, arr)
          IN  /\ status' = [i \in DOMAIN arr |->
                              IF i \in f.sent THEN "inflight" ELSE "unsent"]
              /\ thrown' = IF f.thrown THEN "NotFoundError" ELSE "none"
              /\ UNCHANGED <<callbacks, delivered>>
     ELSE /\ status' = [i \in DOMAIN arr |-> "unsent"]
          /\ callbacks' = callbacks + 1
          /\ delivered' = EmptyArr
          /\ UNCHANGED thrown

\* the offsets of the id cycle tried for an input of length n
Offsets(n) == IF n <= MaxVariedN THEN 0..2 ELSE {0}

CallPutObjects ==
  /\ op = "idle"
  /\ \E table \in {"s1", "nostore"}, n \in 0..MaxPutN, r \in 0..2 :
      Call("putObjects", ObjectsInput(table, n, r), table)

CallGetByIds ==
  /\ op = "idle"
  /\ \E table \in {"s1", "nostore"}, n \in 0..MaxGetN :
      \E r \in Offsets(n) : Call("getByIds", IdsInput(table, n, r), table)

CallGetByKeys ==
  /\ op = "idle"
  /\ \E n \in 0..MaxGetN, bad \in {-1, 1, REQ_PER_TX} :
      \E r \in Offsets(n) : Call("getByKeys", KeysInput(n, r, bad), "")

\* the success callback of item i, after the native request succeeded with
\* value x for the item
SuccessCallback(i, x) ==
  LET cnt == result_count + 1
      arr == StoreResult(objects, i, x)
      next == NextIndex(i, Window(op))
  IN  /\ result_count' = cnt
      /\ objects' = arr
      /\ UNCHANGED <<op, items, errbacks, fetchVars, storeVars, otherVars>>
      /\ IF AllDone(cnt, ArrLen(items))
         THEN /\ callbacks' = callbacks + 1
              /\ delivered' = arr
              /\ status' = [status EXCEPT ![i] = "ok"]
              /\ UNCHANGED thrown
         ELSE /\ UNCHANGED <<callbacks, delivered>>
              /\ IF next < ArrLen(items)
                 THEN IF StoreFound(op, items[next])
                      THEN /\ status' = [status EXCEPT ![i] = "ok",
                                                       ![next] = "inflight"]
                           /\ UNCHANGED thrown
                      ELSE /\ status' = [status EXCEPT ![i] = "ok"]
                           /\ thrown' = "NotFoundError"
                 ELSE /\ status' = [status EXCEPT ![i] = "ok"]
                      /\ UNCHANGED thrown

\* the native INSERT OR REPLACE of item i succeeds
PutSuccess(i) ==
  /\ op = "putObjects"
  /\ i \in InFlight
  /\ LET out == getIndexedValues(items[i].obj)
         r == InsertOrReplace(db, items[i].store, out)
     IN  /\ db' = r.db
         /\ SuccessCallback(i, PutValue(out, r.insertId))

\* the native SELECT of item i succeeds
GetSuccess(i) ==
  /\ op \in {"getByIds", "getByKeys"}
  /\ i \in InFlight
  /\ UNCHANGED db
  /\ SuccessCallback(i, GetValue(SelectByKey(db, items[i].store, items[i].id)))

\* the native request of item i fails: error_callback
NativeError(i) ==
  /\ op \in BatchOps
  /\ i \in InFlight
  /\ Cardinality(Failed) < MaxFail
  /\ status' = [status EXCEPT ![i] = "failed"]
  /\ errbacks' = errbacks + 1
  /\ UNCHANGED <<op, db, items, objects, result_count, callbacks, delivered,
                 thrown, fetchVars, storeVars, otherVars>>

Init ==
  /\ op = "idle"
  /\ db = InitDb
  /\ items = EmptyArr
  /\ status = EmptyArr
  /\ objects = EmptyArr
  /\ result_count = 0
  /\ callbacks = 0
  /\ errbacks = 0
  /\ delivered = NotDelivered
  /\ thrown = "none"
  /\ call = NoCall
  /\ sql = NoSql
  /\ scan = NoScan
  /\ log = << >>
  /\ thisFilter = NoQuery
  /\ origFilter = NoQuery
  /\ applied = << >>
  /\ stack = << >>
  /\ events = << >>

vars == <<op, db, batchVars, dfVars, fetchVars, storeVars, otherVars>>

NextBatch ==
  \/ CallPutObjects
  \/ CallGetByIds
  \/ CallGetByKeys
  \/ \E i \in DOMAIN status : PutSuccess(i)
  \/ \E i \in DOMAIN status : GetSuccess(i)
  \/ \E i \in DOMAIN status : NativeError(i)

SpecBatch == Init /\ [][NextBatch]_vars

\* the batch operations on a backend where no request fails
NextBatchNoFail ==
  \/ CallPutObjects
  \/ CallGetByIds
  \/ CallGetByKeys
  \/ \E i \in DOMAIN status : PutSuccess(i)
  \/ \E i \in DOMAIN status : GetSuccess(i)

\* ... and every request that was submitted completes
SpecBatchFair ==
  /\ Init
  /\ [][NextBatchNoFail]_vars
  /\ WF_vars(\E i \in DOMAIN status : PutSuccess(i))
  /\ WF_vars(\E i \in DOMAIN status : GetSuccess(i))

(***************************************************************************)
(* fetch(df, q, max, skip).                                                *)
(*                                                                         *)
(* The function-valued stages of a query are named: "none" stands for a    *)
(* stage that is not a function.  map and reduce are free symbols, so two  *)
(* results are equal only when the same calls were made with the same      *)
(* arguments in the same order.                                            *)
(***************************************************************************)
isFunction(f) == f # "none"

\* q.filter(value)
ApplyFilter(f, value) ==
  CASE f = "true" -> TRUE
    [] f = "odd" -> value.id.v % 2 = 1

\* q.continued(value): "ne2" stops the scan at the object whose id is 2
ApplyContinued(f, value) == value.id.v # 2

\* q.map(value)
ApplyMap(f, value) == [t |-> "mapped", v |-> value]

\* q.reduce(result, value, i)
ApplyReduce(f, acc, value, i) == [t |-> "reduced", v |-> <<acc, value, i>>]

NoRange == [t |-> "none", v |-> 0]

KeyRange(lower, upper, lowerOpen, upperOpen) ==
  [t |-> "range", lower |-> lower, upper |-> upper,
   lowerOpen |-> lowerOpen, upperOpen |-> upperOpen]

Query(store, index, keyRange, direction, filter, continued, map, reduce) ==
  [store_name |-> store, index |-> index, keyRange |-> keyRange,
   direction |-> direction, filter |-> filter, continued |-> continued,
   map |-> map, reduce |-> reduce,
   initial |-> IF isFunction(reduce) THEN Num(0) ELSE Null]

\* the objects a store may hold when fetch is called: ids 1..MaxRows
AgeOf(k) == ((k * 2) % 3) * 10

FetchObj(k) == Obj(Num(k), Num(AgeOf(k)))

\* does column value x lie inside the key range
InRange(kr, x) ==
  /\ isDef(kr.lower) =>
       IF kr.lowerOpen THEN x > kr.lower.v ELSE x >= kr.lower.v
  /\ isDef(kr.upper) =>
       IF kr.upperOpen THEN x < kr.upper.v ELSE x <= kr.upper.v

\* the value of a column of a native row
Column(row, name) == IF name = "age" THEN row.age.v ELSE row.key.v

\* does row a come before row b under ORDER BY col dir (ties: by row id)
Before(a, b, col, dir) ==
  LET x == Column(a, col)
      y == Column(b, col)
  IN  IF x = y THEN a.key.v < b.key.v
      ELSE IF dir = "DESC" THEN x > y ELSE x < y

RECURSIVE SortRows(_, _, _)
SortRows(S, col, dir) ==
  IF S = {} THEN << >>
  ELSE LET first == CHOOSE a \in S :
                      \A b \in S \ {a} : Before(a, b, col, dir)
       IN  <<first>> \o SortRows(S \ {first}, col, dir)

\* seq without its first n elements
Drop(seq, n) ==
  IF n >= Len(seq) THEN << >> ELSE SubSeq(seq, n + 1, Len(seq))

\* the first n elements of seq
Take(seq, n) == IF n >= Len(seq) THEN seq ELSE SubSeq(seq, 1, n)

\* the command fetch builds.  orderBy is the quoted column or "none"; where
\* is the key range on the column the query selects; limit and offset are
\* Undef when the clause is absent.
Sql(store, where, column, orderBy, dir, limit, offset) ==
  [t |-> "sql", store |-> store, where |-> where, column |-> column,
   orderBy |-> orderBy, dir |-> dir, limit |-> limit, offset |-> offset]

\* SQLite rejects OFFSET without LIMIT
WellFormed(cmd) == isDef(cmd.offset) => isDef(cmd.limit)

\* the rows SQLite returns for a well-formed command, as a sequence.  With no
\* ORDER BY the rows come in row id order.
ExecuteSql(d, cmd) ==
  LET inRange == {r \in d[cmd.store] :
                    cmd.where = NoRange
                      \/ InRange(cmd.where, Column(r, cmd.column))}
      sorted == IF cmd.orderBy = "none" THEN SortRows(inRange, "id", "ASC")
                ELSE SortRows(inRange, cmd.orderBy, cmd.dir)
      skipped == IF isDef(cmd.offset) THEN Drop(sorted, cmd.offset.v)
                 ELSE sorted
  IN  IF isDef(cmd.limit) THEN Take(skipped, cmd.limit.v) ELSE skipped

CanPushDownIgnoringContinued(qq) == ~isFunction(qq.filter)

\* !goog.isFunction(q.filter) && !goog.isFunction(q.continued)
CanPushDown(qq) == ~isFunction(qq.filter) /\ ~isFunction(qq.continued)

\* fetch up to tx.executeSql: the command, and start and end as the row loop
\* will see them
Plan(qq, max, skip) ==
  LET start == IF skip.t = "number" /\ skip.v # 0 THEN skip.v ELSE 0
      end == IF isDef(max) THEN Num(start + max.v) ELSE Undef
      index == qq.index
      dir == IF qq.direction = "prev" THEN "DESC" ELSE "ASC"
      column == IF index # "none" THEN index ELSE "id"
      orderBy == IF index # "none" THEN index
                 ELSE keyPath(qq.store_name)
      push == CanPushDown(qq)
      limit == IF push /\ isDef(end) THEN Num(end.v - start) ELSE Undef
      offset == IF push /\ start > 0 THEN Num(start) ELSE Undef
  IN  [sql |-> Sql(qq.store_name, qq.keyRange, column, orderBy, dir,
                   limit, offset),
       start |-> IF push /\ start > 0 THEN 0 ELSE start,
       end |-> IF push THEN Undef ELSE end]

Event(e, i) == [e |-> e, i |-> i]

AcceptsOnlyWithFilter(qq, value) ==
  isFunction(qq.filter) /\ ApplyFilter(qq.filter, value)

\* !goog.isFunction(q.filter) || q.filter(value)
Accepts(qq, value) ==
  ~isFunction(qq.filter) \/ ApplyFilter(qq.filter, value)

\* the state of the row loop: idx, result, whether it broke, the rows it
\* scanned and the calls it made
LoopState(idx, result, broke, scanned, trace) ==
  [idx |-> idx, result |-> result, broke |-> broke, scanned |-> scanned,
   trace |-> trace]

\* a row loop that maps every row the filter accepted, skipped or not
FilterAndEmitMapAll(qq, start, end, st, i, value, to_continue, t0) ==
  LET is_reduce == isFunction(qq.reduce)
      t1 == IF isFunction(qq.filter)
            THEN Append(t0, Event("filter", i)) ELSE t0
      accepted == Accepts(qq, value)
      idx == IF accepted THEN st.idx + 1 ELSE st.idx
      emit == accepted /\ idx >= start
      t2 == IF accepted /\ isFunction(qq.map)
            THEN Append(t1, Event("map", i)) ELSE t1
      mapped == IF isFunction(qq.map) THEN ApplyMap(qq.map, value)
                ELSE value
      result == IF ~emit THEN st.result
                ELSE IF is_reduce
                THEN ApplyReduce(qq.reduce, st.result, mapped, i)
                ELSE ArrPush(st.result, mapped)
      t3 == IF ~emit THEN t2
            ELSE Append(t2, Event(IF is_reduce THEN "reduce" ELSE "push", i))
      go == to_continue /\ (~isDef(end) \/ idx + 1 < end.v)
  IN  LoopState(idx, result, ~go, st.scanned + 1, t3)

\* the part of one iteration from the filter on, given to_continue
FilterAndEmit(qq, start, end, st, i, value, to_continue, t0) ==
  LET is_reduce == isFunction(qq.reduce)
      t1 == IF isFunction(qq.filter)
            THEN Append(t0, Event("filter", i)) ELSE t0
      accepted == Accepts(qq, value)
      idx == IF accepted THEN st.idx + 1 ELSE st.idx
      emit == accepted /\ idx >= start
      t2 == IF emit /\ isFunction(qq.map)
            THEN Append(t1, Event("map", i)) ELSE t1
      mapped == IF isFunction(qq.map) THEN ApplyMap(qq.map, value)
                ELSE value
      result == IF ~emit THEN st.result
                ELSE IF is_reduce
                THEN ApplyReduce(qq.reduce, st.result, mapped, i)
                ELSE ArrPush(st.result, mapped)
      t3 == IF ~emit THEN t2
            ELSE Append(t2, Event(IF is_reduce THEN "reduce" ELSE "push", i))
      go == to_continue /\ (~isDef(end) \/ idx + 1 < end.v)
  IN  LoopState(idx, result, ~go, st.scanned + 1, t3)

\* a row loop that asks continued only about the rows the filter accepted
RowStepFilterFirst(qq, start, end, st, i, value) ==
  LET accepted == Accepts(qq, value)
      asked == isFunction(qq.continued) /\ accepted
      to_continue == ~asked \/ ApplyContinued(qq.continued, value)
      t0 == IF asked THEN Append(st.trace, Event("continued", i))
            ELSE st.trace
  IN  FilterAndEmit(qq, start, end, st, i, value, to_continue, t0)

\* one iteration of the row loop on row i, whose parsed value is given
RowStep(qq, start, end, st, i, value) ==
  LET to_continue == ~isFunction(qq.continued)
                       \/ ApplyContinued(qq.continued, value)
      t0 == IF isFunction(qq.continued)
            THEN Append(st.trace, Event("continued", i)) ELSE st.trace
  IN  FilterAndEmit(qq, start, end, st, i, value, to_continue, t0)

RECURSIVE RowLoop(_, _, _, _, _, _)
\* for (var i = 0; i < n; i++) { ... break ... }
RowLoop(qq, start, end, rows, i, st) ==
  IF i >= Len(rows) \/ st.broke THEN st
  ELSE RowLoop(qq, start, end, rows, i + 1,
               RowStep(qq, start, end, st, i, parseRow(rows[i + 1])))

\* the callback of fetch on the rows of the result set
FetchCallback(qq, start, end, rows) ==
  RowLoop(qq, start, end, rows, 0,
          LoopState(-1, IF isFunction(qq.reduce) THEN Undef ELSE EmptyArr,
                    FALSE, 0, << >>))

\* what fetch delivers to df.callback for a query on a database
FetchResult(d, qq, max, skip) ==
  LET p == Plan(qq, max, skip)
  IN  FetchCallback(qq, p.start, p.end, ExecuteSql(d, p.sql)).result

(***************************************************************************)
(* fetch as operations: the call, and the native answer with the callback. *)
(***************************************************************************)
FetchPending == op = "fetch" /\ sql # NoSql /\ callbacks + errbacks = 0

\* earlier transactions left stores "s1" and "s3" with the objects whose ids
\* are in S (in "s3", which has no key path, under these row ids)
SeedStore(S) ==
  /\ op = "idle"
  /\ db' = [db EXCEPT !["s1"] = {RowOf(FetchObj(k)) : k \in S},
                      !["s3"] = {RowOf(FetchObj(k)) : k \in S}]
  /\ UNCHANGED <<op, batchVars, dfVars, fetchVars, storeVars, otherVars>>

\* fetch(df, q, max, skip) up to its return
CallFetch(qq, max, skip) ==
  /\ op = "idle"
  /\ op' = "fetch"
  /\ call' = [q |-> qq, max |-> max, skip |-> skip]
  /\ IF getStore(qq.store_name)
     THEN /\ sql' = Plan(qq, max, skip).sql
          /\ UNCHANGED thrown
     ELSE /\ thrown' = "TypeError"
          /\ UNCHANGED sql
  /\ UNCHANGED <<db, batchVars, callbacks, errbacks, delivered, scan,
                 storeVars, otherVars>>

\* the native SELECT succeeds: callback
FetchSuccess ==
  /\ FetchPending
  /\ WellFormed(sql)
  /\ LET p == Plan(call.q, call.max, call.skip)
         rows == ExecuteSql(db, sql)
         st == FetchCallback(call.q, p.start, p.end, rows)
     IN  /\ scan' = [t |-> "scan", rows |-> rows, start |-> p.start,
                     end |-> p.end, scanned |-> st.scanned,
                     trace |-> st.trace]
         /\ delivered' = st.result
         /\ callbacks' = callbacks + 1
  /\ UNCHANGED <<op, db, batchVars, errbacks, thrown, call, sql, storeVars,
                 otherVars>>

\* the native SELECT fails: error_callback
FetchError ==
  /\ FetchPending
  /\ errbacks' = errbacks + 1
  /\ UNCHANGED <<op, db, batchVars, callbacks, delivered, thrown, fetchVars,
                 storeVars, otherVars>>

KeyRanges ==
  {NoRange,
   KeyRange(Num(2), Undef, FALSE, FALSE),
   KeyRange(Num(1), Num(3), TRUE, FALSE)}

\* max and skip as a caller may give them
Args == {Undef} \cup {Num(n) : n \in 0..MaxArg}

Queries ==
  {Query("s1", index, kr, dir, f, c, m, r) :
     index \in {"none", "age"}, kr \in KeyRanges, dir \in {"next", "prev"},
     f \in {"none", "true", "odd"}, c \in {"none", "ne2"},
     m \in {"none", "m"}, r \in {"none", "r"}}
  \cup {Query("nostore", "none", NoRange, "next", "none", "none", "none",
              "none")}
  \cup {Query("s3", index, NoRange, dir, "none", "none", "none", "none") :
          index \in {"none", "age"}, dir \in {"next", "prev"}}

\* some earlier content of the store
Seed == op = "idle" /\ \E S \in SUBSET (1..MaxRows) : SeedStore(S)

\* some call of fetch
Fetch ==
  /\ op = "idle"
  /\ \E qq \in Queries, max \in Args, skip \in Args : CallFetch(qq, max, skip)

NextFetch ==
  \/ Seed
  \/ Fetch
  \/ FetchSuccess
  \/ FetchError

SpecFetch == Init /\ [][NextFetch]_vars

(***************************************************************************)
(* The operations on one object and on whole stores: putObject, getById,   *)
(* getByStore, clearByStore, removeById, clearById, count, removeByStore.  *)
(*                                                                         *)
(* The executor is called again when the operation before has ended: by    *)
(* its callback, by its errback or by an exception.  SQLite fails a        *)
(* command of these operations when its table does not exist, and for no   *)
(* other cause.                                                            *)
(***************************************************************************)
\* most operations of one run
MaxOps == 3

StoreOps ==
  {"putObject", "getById", "getByStore", "clearByStore", "removeById",
   "clearById", "count", "removeByStore"}

\* d.callback(true)
True == [t |-> "boolean", v |-> 1]

\* a store-name argument: a string or an array of strings
StrArg(name) == [t |-> "string", v |-> name]

ArrArg(names) == [t |-> "array", v |-> names]

\* schema.getStoreNames()
getStoreNames == [i \in 0..2 |-> <<"s1", "s2", "s3">>[i + 1]]

\* the stores getByStore / clearByStore work through
TableNames(arg) ==
  CASE arg.t = "string" -> [i \in {0} |-> arg.v]
    [] arg.t = "array" /\ ArrLen(arg.v) > 0 -> arg.v
    [] OTHER -> getStoreNames

\* the stores removeByStore drops
DropNames(arg) == IF isDef(arg) THEN [i \in {0} |-> arg.v] ELSE getStoreNames

TableItems(names) == [i \in DOMAIN names |-> Item(names[i], Undef, Undef)]

One(item) == [i \in {0} |-> item]

\* a completed operation: how it ended ("callback", "errback", "throw"),
\* what it delivered and the database it left
Entry(o, arr, out, value, d) ==
  [op |-> o, items |-> arr, out |-> out, value |-> value, db |-> d]

\* a piece of command text: an identifier, a keyword or a placeholder
Text(s) == [k |-> "text", s |-> s, n |-> 0]

\* a value written into the command text
Lit(x) == [k |-> x.t, s |-> "", n |-> x.v]

\* out.columns of getIndexedValues: the key column when the object has a
\* key, the index column when it has the field, and the column of the
\* serialised object
columns(out) ==
  (IF isDef(out.key) THEN <<Text("id")>> ELSE << >>)
    \o (IF out.age # Null THEN <<Text("age")>> ELSE << >>)
    \o <<Text("_default_")>>

\* out.slots: one placeholder for each column
slots(out) == [j \in 1..Len(columns(out)) |-> Text("?")]

\* out.values: the value of each column
values(out) ==
  (IF isDef(out.key) THEN <<out.key>> ELSE << >>)
    \o (IF out.age # Null THEN <<out.age>> ELSE << >>)
    \o <<out.blob>>

\* the arguments of tx.executeSql(sql, params, ...)
Command(text, params) == [t |-> "command", text |-> text, params |-> params]

PutSqlInterpolated(store, out) ==
  Command(<<Text("INSERT OR REPLACE INTO"), Text(store), Text("(")>>
            \o columns(out) \o <<Text(") VALUES (")>>
            \o [j \in 1..(Len(values(out)) - 1) |-> Lit(values(out)[j])]
            \o <<Text("?"), Text(");")>>,
          values(out))

\* 'INSERT OR REPLACE INTO ' + name + ' (' + columns + ') VALUES (' + slots + ');'
PutSql(store, out) ==
  Command(<<Text("INSERT OR REPLACE INTO"), Text(store), Text("(")>>
            \o columns(out) \o <<Text(") VALUES (")>> \o slots(out)
            \o <<Text(");")>>,
          values(out))

\* the key column of a store: its key path, or the row id of a store
\* without one
getSQLKeyColumnName(store) ==
  IF keyPath(store) = "none" THEN "_ROWID_" ELSE keyPath(store)

\* the quoted key path of a store
getQuotedKeyPath(store) == keyPath(store)

\* 'SELECT * FROM ' + name + ' WHERE ' + column_name + ' = ?'
SelectByKeySql(store, id) ==
  Command(<<Text("SELECT * FROM"), Text(store), Text("WHERE"),
            Text(getSQLKeyColumnName(store)), Text("= ?")>>,
          <<id>>)

\* 'DELETE FROM  ' + name + ' WHERE ' + key_column + ' = ?'
RemoveByIdSql(store, key) ==
  Command(<<Text("DELETE FROM "), Text(store), Text("WHERE"),
            Text(getSQLKeyColumnName(store)), Text("= ?")>>,
          <<key>>)

\* 'DELETE FROM ' + name + ' WHERE ' + store.getQuotedKeyPath() + ' = ?'
ClearByIdSql(store, id) ==
  Command(<<Text("DELETE FROM"), Text(store), Text("WHERE"),
            Text(getQuotedKeyPath(store)), Text("= ?")>>,
          <<id>>)

\* 'SELECT COUNT(*) FROM ' + goog.string.quote(table)
CountSql(store) == Command(<<Text("SELECT COUNT(*) FROM"), Text(store)>>, << >>)

\* 'SELECT * FROM ' + name
SelectAllSql(store) == Command(<<Text("SELECT * FROM"), Text(store)>>, << >>)

\* 'DELETE FROM  ' + name
DeleteAllSql(store) == Command(<<Text("DELETE FROM "), Text(store)>>, << >>)

RECURSIVE DropText(_, _)
\* sql = sql + 'DROP TABLE ' + name + ';' for the stores from number i on
DropText(arr, i) ==
  IF i >= ArrLen(arr) THEN << >>
  ELSE <<Text("DROP TABLE"), Text(arr[i].store), Text(";")>>
         \o DropText(arr, i + 1)

\* the command an operation issues for item i
CommandOf(o, arr, i) ==
  LET store == arr[i].store
  IN  CASE o = "putObject" -> PutSql(store, getIndexedValues(arr[i].obj))
        [] o = "getById" -> SelectByKeySql(store, arr[i].id)
        [] o = "removeById" -> RemoveByIdSql(store, arr[i].id)
        [] o = "clearById" -> ClearByIdSql(store, arr[i].id)
        [] o = "count" -> CountSql(store)
        [] o = "getByStore" -> SelectAllSql(store)
        [] o = "clearByStore" -> DeleteAllSql(store)
        [] o = "removeByStore" -> Command(DropText(arr, 0), << >>)

\* the SQLError a failed command reports
SQLError == [t |-> "SQLError", v |-> 0]

\* error_callback: the value given to d.errback
errback(o, error) == error

\* SELECT COUNT(*) FROM store
CountRows(d, store) == Cardinality(d[store])

DeleteEveryRow(d, store, id) == [d EXCEPT ![store] = {}]

\* DELETE FROM store WHERE key = ?
DeleteByKey(d, store, id) == [d EXCEPT ![store] = {r \in @ : r.key # id}]

DeleteEverywhere(d, store) == [s \in DOMAIN d |-> {}]

\* DELETE FROM store
DeleteAll(d, store) == [d EXCEPT ![store] = {}]

\* DROP TABLE of every store in T
DropTables(d, T) == [s \in DOMAIN d \ T |-> d[s]]

RECURSIVE PushRows(_, _, _)
\* for (i = 0; i < results.rows.length; i++) arr.push(parseRow(table, row))
PushRows(arr, rows, i) ==
  IF i >= Len(rows) THEN arr
  ELSE PushRows(ArrPush(arr, parseRow(rows[i + 1])), rows, i + 1)

\* an operation up to its return: the exception it throws, the items whose
\* native command it issued, and whether it called d.callback([]) itself
CallOutcome(o, arr) ==
  LET found == getStore(arr[0].store)
      send(S) == [thrown |-> "none", sent |-> S, cb |-> FALSE]
      throw(e) == [thrown |-> e, sent |-> {}, cb |-> FALSE]
  IN  CASE o \in {"putObject", "getById", "clearById"} ->
             IF found THEN send({0}) ELSE throw("NotFoundError")
        [] o = "removeById" ->
             IF found THEN send({0}) ELSE throw("TypeError")
        [] o = "count" -> send({0})
        [] o = "removeByStore" ->
             IF found THEN send(DOMAIN arr) ELSE throw("Error")
        [] o = "getByStore" ->
             IF found THEN send({0}) ELSE throw("NotFoundError")
        [] o = "clearByStore" ->
             IF ArrLen(arr) = 0
             THEN [thrown |-> "none", sent |-> {}, cb |-> TRUE]
             ELSE IF found THEN send({0}) ELSE throw("NotFoundError")

\* the operation before has ended
Ready == op \in StoreOps \cup {"idle"} /\ InFlight = {}

\* a call of one of the operations
StoreCall(o, arr) ==
  /\ Ready
  /\ Len(log) < MaxOps
  /\ LET out == CallOutcome(o, arr)
     IN  /\ op' = o
         /\ items' = arr
         /\ status' = [i \in DOMAIN arr |->
                         IF i \in out.sent THEN "inflight" ELSE "unsent"]
         /\ objects' = EmptyArr
         /\ result_count' = 0
         /\ callbacks' = IF out.cb THEN 1 ELSE 0
         /\ errbacks' = 0
         /\ delivered' = IF out.cb THEN EmptyArr ELSE NotDelivered
         /\ thrown' = out.thrown
         /\ log' = IF out.thrown # "none"
                   THEN Append(log, Entry(o, arr, "throw", NotDelivered, db))
                   ELSE IF out.cb
                   THEN Append(log, Entry(o, arr, "callback", EmptyArr, db))
                   ELSE log
         /\ sql' = IF out.sent # {} THEN CommandOf(o, arr, 0) ELSE NoSql
  /\ UNCHANGED <<db, call, scan, otherVars>>

\* the operation ends: the commands of the items in I completed, and the
\* callback, the errback or an exception out of the callback follows
Resolve(I, out, value, d) ==
  /\ status' = [i \in DOMAIN status |->
                  IF i \notin I THEN status[i]
                  ELSE IF out = "errback" THEN "failed" ELSE "ok"]
  /\ db' = d
  /\ callbacks' = IF out = "callback" THEN callbacks + 1 ELSE callbacks
  /\ errbacks' = IF out = "errback" THEN errbacks + 1 ELSE errbacks
  /\ delivered' = IF out = "callback" THEN value ELSE delivered
  /\ thrown' = IF out = "throw" THEN "NotFoundError" ELSE thrown
  /\ log' = Append(log, Entry(op, items, out, value, d))
  /\ UNCHANGED <<op, items, result_count, fetchVars, otherVars>>

\* getAll(idx + 1, transaction) / deleteStore(i + 1, transaction)
NextStore(i, d) ==
  IF getStore(items[i + 1].store)
  THEN /\ status' = [status EXCEPT ![i] = "ok", ![i + 1] = "inflight"]
       /\ db' = d
       /\ sql' = CommandOf(op, items, i + 1)
       /\ UNCHANGED <<op, items, result_count, dfVars, call, scan, storeVars,
                      otherVars>>
  ELSE Resolve({i}, "throw", NotDelivered, d)

\* the table of item i exists in the native database
TableExists(i) == items[i].store \in DOMAIN db

\* putObject: the INSERT OR REPLACE succeeds
PutObjectSuccess ==
  /\ op = "putObject"
  /\ 0 \in InFlight
  /\ TableExists(0)
  /\ LET out == getIndexedValues(items[0].obj)
         r == InsertOrReplace(db, items[0].store, out)
     IN  Resolve({0}, "callback", PutValue(out, r.insertId), r.db)
  /\ UNCHANGED objects

\* getById: the SELECT succeeds
GetByIdSuccess ==
  /\ op = "getById"
  /\ 0 \in InFlight
  /\ TableExists(0)
  /\ Resolve({0}, "callback",
             GetValue(SelectByKey(db, items[0].store, items[0].id)), db)
  /\ UNCHANGED objects

\* count: the SELECT COUNT(*) succeeds
CountSuccess ==
  /\ op = "count"
  /\ 0 \in InFlight
  /\ TableExists(0)
  /\ Resolve({0}, "callback", Num(CountRows(db, items[0].store)), db)
  /\ UNCHANGED objects

\* removeById / clearById: the DELETE succeeds
DeleteSuccess ==
  /\ op \in {"removeById", "clearById"}
  /\ 0 \in InFlight
  /\ TableExists(0)
  /\ Resolve({0}, "callback", True,
             DeleteByKey(db, items[0].store, items[0].id))
  /\ UNCHANGED objects

\* removeByStore: the command succeeds.  It is one string of DROP TABLE
\* statements; the engine runs them all or only the first.
DropSuccess ==
  /\ op = "removeByStore"
  /\ InFlight # {}
  /\ \A i \in InFlight : TableExists(i)
  /\ \E T \in {{items[0].store}, {items[i].store : i \in DOMAIN items}} :
       Resolve(DOMAIN items, "callback", True, DropTables(db, T))
  /\ UNCHANGED objects

\* clearByStore: the DELETE of store i succeeds
ClearStoreSuccess(i) ==
  /\ op = "clearByStore"
  /\ i \in InFlight
  /\ TableExists(i)
  /\ LET d == DeleteAll(db, items[i].store)
     IN  IF i = ArrLen(items) - 1
         THEN Resolve({i}, "callback", True, d)
         ELSE NextStore(i, d)
  /\ UNCHANGED objects

\* getByStore: the SELECT of store idx succeeds
GetAllSuccess(idx) ==
  /\ op = "getByStore"
  /\ idx \in InFlight
  /\ TableExists(idx)
  /\ LET rows == SortRows(db[items[idx].store], "id", "ASC")
         arr == PushRows(objects, rows, 0)
     IN  /\ objects' = arr
         /\ IF idx = ArrLen(items) - 1
            THEN Resolve({idx}, "callback", arr, db)
            ELSE NextStore(idx, db)

\* the command of an operation fails: error_callback
StoreNativeError ==
  /\ op \in StoreOps
  /\ InFlight # {}
  /\ \E i \in InFlight : ~TableExists(i)
  /\ Resolve(InFlight, "errback", errback(op, SQLError), db)
  /\ UNCHANGED objects

\* the calls of a run
StoreCalls ==
  {[op |-> "putObject", items |-> One(Item("s1", PutPool[k].id, PutPool[k]))] :
     k \in 1..3}
  \cup {[op |-> "putObject",
          items |-> One(Item("s1", Num(7), Obj(Num(7), Num(20))))]}
  \cup {[op |-> "putObject", items |-> One(Item("nostore", Undef, PutPool[1]))]}
  \cup {[op |-> o, items |-> One(Item(s, Num(1), Undef))] :
          o \in {"getById", "removeById", "clearById"},
          s \in {"s1", "nostore"}}
  \cup {[op |-> o, items |-> One(Item("s1", Num(7), Undef))] :
          o \in {"getById", "removeById"}}
  \cup {[op |-> "count", items |-> One(Item(s, Undef, Undef))] :
          s \in {"s1", "nostore"}}
  \cup {[op |-> "removeByStore", items |-> TableItems(DropNames(a))] :
          a \in {Undef, StrArg("s2"), StrArg("nostore")}}
  \cup {[op |-> o, items |-> TableItems(TableNames(a))] :
          o \in {"getByStore", "clearByStore"},
          a \in {Undef, StrArg("s1"),
                 ArrArg([i \in 0..1 |-> <<"s1", "nostore">>[i + 1]])}}
  \cup {[op |-> "clearByStore", items |-> TableItems(TableNames(StrArg("s2")))]}

\* some call
CallStore ==
  /\ Ready
  /\ Len(log) < MaxOps
  /\ \E c \in StoreCalls : StoreCall(c.op, c.items)

\* the database right after construction: every store of the schema is empty
EmptyDb == [s \in StoreNames |-> {}]

InitStore ==
  /\ op = "idle"
  /\ db = EmptyDb
  /\ items = EmptyArr
  /\ status = EmptyArr
  /\ objects = EmptyArr
  /\ result_count = 0
  /\ callbacks = 0
  /\ errbacks = 0
  /\ delivered = NotDelivered
  /\ thrown = "none"
  /\ call = NoCall
  /\ sql = NoSql
  /\ scan = NoScan
  /\ log = << >>
  /\ thisFilter = NoQuery
  /\ origFilter = NoQuery
  /\ applied = << >>
  /\ stack = << >>
  /\ events = << >>

NextStoreOps ==
  \/ CallStore
  \/ PutObjectSuccess
  \/ GetByIdSuccess
  \/ CountSuccess
  \/ DeleteSuccess
  \/ DropSuccess
  \/ \E i \in DOMAIN status : ClearStoreSuccess(i)
  \/ \E i \in DOMAIN status : GetAllSuccess(i)
  \/ StoreNativeError

SpecStore == InitStore /\ [][NextStoreOps]_vars

(***************************************************************************)
(* IterableQuery: the constructor and processWhereAsFilter.                *)
(*                                                                         *)
(* A function value is a record: a named function, or the closure that     *)
(* processWhereAsFilter creates, which holds prev_filter and where.        *)
(***************************************************************************)
\* most where conditions processed on one query
MaxWheres == 2

Named(name) == [t |-> "named", v |-> name]

Closure(prev_filter, where) ==
  [t |-> "closure", v |-> [prev_filter |-> prev_filter, where |-> where]]

\* goog.isFunction on these values
isFunctionValue(f) == f.t \in {"named", "closure"}

\* a where condition on a field
Where(field, lower, upper, lowerOpen, upperOpen) ==
  [field |-> field, lower |-> lower, upper |-> upper,
   lowerOpen |-> lowerOpen, upperOpen |-> upperOpen]

\* obj[where.field]
Field(obj, field) == IF field = "age" THEN obj.age ELSE obj.id

\* x < y and x <= y of JavaScript on numbers and undefined: a comparison
\* with undefined is false
JsLess(x, y) == x.t = "number" /\ y.t = "number" /\ x.v < y.v

JsLessEq(x, y) == x.t = "number" /\ y.t = "number" /\ x.v <= y.v

RECURSIVE CallFilter(_, _)
\* f(obj) for a filter f
CallFilter(f, obj) ==
  IF f.t = "named"
  THEN IF f.v = "TRUE" THEN TRUE ELSE ApplyFilter(f.v, obj)
  ELSE LET where == f.v.where
           value == Field(obj, where.field)
           ok1 == IF isDef(where.lower)
                  THEN IF where.lowerOpen THEN JsLess(value, where.lower)
                       ELSE JsLessEq(value, where.lower)
                  ELSE TRUE
           ok2 == IF isDef(where.upper)
                  THEN IF where.upperOpen THEN JsLess(where.upper, value)
                       ELSE JsLessEq(where.upper, value)
                  ELSE TRUE
       IN  CallFilter(f.v.prev_filter, obj) /\ ok1 /\ ok2

\* new IterableQuery(store, index, keyRange, filter, continued)
Construct(filter) ==
  /\ thisFilter.t = "none"
  /\ thisFilter' = IF isFunctionValue(filter) THEN filter ELSE Null
  /\ origFilter' = filter
  /\ applied' = << >>
  /\ UNCHANGED <<op, db, batchVars, dfVars, fetchVars, storeVars, txVars>>

\* this.filter after processWhereAsFilter(where)
WhereAsFilter(filter, where) ==
  LET prev_filter == IF isFunctionValue(filter) THEN filter
                     ELSE Named("TRUE")
  IN  Closure(prev_filter, where)

\* q.processWhereAsFilter(where)
ProcessWhereAsFilter(where) ==
  /\ thisFilter.t # "none"
  /\ Len(applied) < MaxWheres
  /\ thisFilter' = WhereAsFilter(thisFilter, where)
  /\ applied' = Append(applied, where)
  /\ UNCHANGED <<op, db, batchVars, dfVars, fetchVars, storeVars, txVars,
                 origFilter>>

\* the filters a query is constructed with: none, or a function
Filters == {Undef, Named("true"), Named("odd")}

\* where conditions on field "age": each bound absent, closed or open
Wheres ==
  {Where("age", lower.v, upper.v, lower.open, upper.open) :
     lower \in {[v |-> Undef, open |-> FALSE], [v |-> Num(10), open |-> FALSE],
                [v |-> Num(10), open |-> TRUE]},
     upper \in {[v |-> Undef, open |-> FALSE], [v |-> Num(20), open |-> FALSE],
                [v |-> Num(20), open |-> TRUE]}}

NewQuery == thisFilter.t = "none" /\ \E f \in Filters : Construct(f)

ProcessWhere ==
  /\ thisFilter.t # "none"
  /\ \E where \in Wheres : ProcessWhereAsFilter(where)

NextWhere ==
  \/ NewQuery
  \/ ProcessWhere

SpecWhere == Init /\ [][NextWhere]_vars

(***************************************************************************)
(* SimpleStorage, the in-memory adapter: onReady and doTransaction.        *)
(*                                                                         *)
(* JavaScript runs one call at a time, so the calls of doTransaction that  *)
(* have not ended form a stack: a body (trFn) may call doTransaction       *)
(* again.  A body ends by returning or by throwing; an exception leaves    *)
(* doTransaction, which has no try, and reaches its caller, which may      *)
(* catch it or end by it in turn.                                          *)
(***************************************************************************)
\* most calls of doTransaction in one run
MaxTx == 3

Scopes == {{"s1"}, {"s2"}}

Modes == {"readonly", "readwrite"}

\* something the caller or a body observed, in order
Ev(e, id, kind) == [e |-> e, id |-> id, kind |-> kind]

\* the calls of doTransaction made so far; call number id is the id-th
Calls == {j \in 1..Len(events) : events[j].e = "call"}

\* a call of doTransaction not yet ended, its body running
Frame(id, scopes, mode) == [id |-> id, scopes |-> scopes, mode |-> mode]

\* onReady(cb): cb(this), then the return
OnReady ==
  /\ events = << >>
  /\ events' = <<Ev("cb", 0, "none"), Ev("ready", 0, "none")>>
  /\ UNCHANGED <<op, db, batchVars, dfVars, fetchVars, storeVars, whereVars,
                 stack>>

\* doTransaction(trFn, scopes, mode, oncompleted) up to the start of
\* trFn(this.cache_), called by top-level code or by the running body
DoTransaction(scopes, mode) ==
  /\ Cardinality(Calls) < MaxTx
  /\ LET id == Cardinality(Calls) + 1
     IN  /\ stack' = Append(stack, Frame(id, scopes, mode))
         /\ events' = events \o <<Ev("call", id, "none"), Ev("body", id, "none")>>
  /\ UNCHANGED <<op, db, batchVars, dfVars, fetchVars, storeVars, whereVars>>

\* trFn returns: oncompleted(COMPLETE, {}), and doTransaction returns
BodyReturns ==
  /\ stack # << >>
  /\ LET id == stack[Len(stack)].id
     IN  events' = events \o <<Ev("oncompleted", id, "COMPLETE"),
                               Ev("return", id, "none")>>
  /\ stack' = SubSeq(stack, 1, Len(stack) - 1)
  /\ UNCHANGED <<op, db, batchVars, dfVars, fetchVars, storeVars, whereVars>>

\* trFn throws: the exception leaves doTransaction
BodyThrows ==
  /\ stack # << >>
  /\ events' = Append(events, Ev("throw", stack[Len(stack)].id, "none"))
  /\ stack' = SubSeq(stack, 1, Len(stack) - 1)
  /\ UNCHANGED <<op, db, batchVars, dfVars, fetchVars, storeVars, whereVars>>

\* some call of doTransaction
Transact ==
  /\ Cardinality(Calls) < MaxTx
  /\ \E scopes \in Scopes, mode \in Modes : DoTransaction(scopes, mode)

NextTx ==
  \/ OnReady
  \/ Transact
  \/ BodyReturns
  \/ BodyThrows

SpecTx == Init /\ [][NextTx]_vars

(***************************************************************************)
(* The library as a whole: any step of any of the components above.  The  *)
(* specifications above are its restrictions to one component.             *)
(***************************************************************************)
Next == NextBatch \/ NextFetch \/ NextStoreOps \/ NextWhere \/ NextTx

Spec == Init /\ [][Next]_vars

(***************************************************************************)
(* Properties of the batch operations.                                     *)
(***************************************************************************)
IsBatch == op \in BatchOps

Min(a, b) == IF a < b THEN a ELSE b

\* the object getByIds / getByKeys owes for an item: the decoded row of that
\* key, or undefined when the store holds no such row
ExpectedObject(item) ==
  IF \E r \in db[item.store] : r.key = item.id
  THEN parseRow(CHOOSE r \in db[item.store] : r.key = item.id)
  ELSE Undef

\* the key putObjects owes for item i: the key of the object, or else the
\* key of a row of its own that holds the object
ExpectedKey(arr, i) ==
  IF isDef(items[i].obj.id)
  THEN arr[i] = items[i].obj.id
  ELSE /\ \E r \in db[items[i].store] :
            r.key = arr[i] /\ r.blob = items[i].obj
       /\ \A j \in DOMAIN items :
            (j # i /\ ~isDef(items[j].obj.id)) => arr[j] # arr[i]

\* C1: whenever the aggregate result of getByIds, getByKeys or putObjects is
\* delivered, it is an array as long as the input whose element i is the
\* result of input item i (decoded object or undefined; the key for a put),
\* whatever the order of the native completions and whatever ids repeat.
C1_ResultMatchesInputOrder ==
  (IsBatch /\ callbacks > 0) =>
    /\ DOMAIN delivered = DOMAIN items
    /\ \A i \in DOMAIN items :
         IF op = "putObjects"
         THEN ExpectedKey(delivered, i)
         ELSE delivered[i] = ExpectedObject(items[i])

\* the scenario of the specification: getByIds([5, 1, 3]) on a store that
\* holds 1 and 3 delivers [undefined, obj1, obj3]
C1_Witness ==
  /\ op = "getByIds"
  /\ callbacks = 1
  /\ ArrLen(items) = 3
  /\ <<items[0].id, items[1].id, items[2].id>> = <<Num(5), Num(1), Num(3)>>
  /\ delivered[0] = Undef
  /\ delivered[1] = Obj(Num(1), Num(30))
  /\ delivered[2] = Obj(Num(3), Num(41))

\* C2 (as claimed): of df.callback and df.errback exactly one is invoked,
\* exactly once; a batch in which several native requests fail surfaces only
\* the first error, once.
C2_SingleResolution ==
  IsBatch =>
    /\ callbacks + errbacks <= 1
    /\ (InFlight = {} /\ thrown = "none") => callbacks + errbacks = 1

\* C3: the aggregate success is delivered only after every one of the N
\* items completed successfully, and once the native request of any item
\* failed it is never delivered: no partial array is returned.
C3_NoPartialSuccess ==
  IsBatch =>
    /\ callbacks > 0 =>
         /\ \A i \in DOMAIN items : status[i] = "ok"
         /\ DOMAIN delivered = DOMAIN items
         /\ \A i \in DOMAIN delivered : delivered[i] # Hole
    /\ Failed # {} => (callbacks = 0 /\ delivered = NotDelivered)

\* one item failed, every other item completed successfully afterwards or
\* before, and no success was delivered
C3_Witness ==
  /\ IsBatch
  /\ Cardinality(Failed) = 1
  /\ InFlight = {}
  /\ ArrLen(items) > Window(op)
  /\ result_count = ArrLen(items) - 1
  /\ callbacks = 0

\* C4: the number of native requests in flight never exceeds the window, 2
\* for putObjects and 10 for getByIds and getByKeys, and the read window is
\* strictly larger than the write window.
C4_WindowBound ==
  /\ RW_REQ_PER_TX < REQ_PER_TX
  /\ op = "putObjects" => Cardinality(InFlight) <= 2
  /\ op \in {"getByIds", "getByKeys"} => Cardinality(InFlight) <= 10
  /\ IsBatch => Cardinality(InFlight) <= Window(op)

\* a full read window after a completion refilled it
C4_Witness ==
  /\ op = "getByIds"
  /\ Cardinality(InFlight) = REQ_PER_TX
  /\ result_count > 0

\* C5 (as claimed): while no request failed, each successful completion
\* submits a not-yet-submitted item when there is one, so that the number of
\* requests in flight is min(window, items not yet completed).
C5_WindowKeptFull ==
  (IsBatch /\ Failed = {} /\ thrown = "none") =>
    Cardinality(InFlight) =
      Min(Window(op), ArrLen(items) - result_count)

\* a batch operation was called and every store its items name is in the
\* schema
BatchAccepted ==
  /\ IsBatch
  /\ thrown = "none"
  /\ \A i \in DOMAIN items : getStore(items[i].store)

\* the result was delivered, once, after every item was submitted and
\* completed
BatchDelivered ==
  /\ callbacks = 1
  /\ \A i \in DOMAIN status : status[i] = "ok"
  /\ ArrLen(delivered) = ArrLen(items)

\* a request is submitted only for an item that was never submitted
SubmitsOnce ==
  (IsBatch /\ op' = op) =>
    \A i \in DOMAIN status :
      (status'[i] = "inflight" /\ status[i] # "inflight") =>
        status[i] = "unsent"

\* C27: on a backend where every submitted request completes and none fails,
\* a batch operation submits no item twice, delivers its result only after
\* every item completed, delivers an empty array at once and with no request
\* for an empty input, and eventually delivers its result whatever the input
\* length and the order in which the requests complete.
C27_EveryItemOnceThenResult ==
  /\ [][SubmitsOnce]_vars
  /\ [](BatchAccepted =>
          /\ callbacks <= 1
          /\ callbacks = 1 => BatchDelivered
          /\ ArrLen(items) = 0 =>
               (callbacks = 1 /\ delivered = EmptyArr /\ status = EmptyArr))
  /\ (BatchAccepted ~> BatchDelivered)

\* putObjects of more objects than its window delivered its result
C27_Witness ==
  /\ op = "putObjects"
  /\ ArrLen(items) > RW_REQ_PER_TX
  /\ BatchAccepted
  /\ BatchDelivered
  /\ errbacks = 0

(***************************************************************************)
(* Properties of fetch.                                                    *)
(***************************************************************************)
\* fetch delivered its result
FetchDone == op = "fetch" /\ callbacks > 0

\* the parsed value of row i of the result set (i from 0)
ValueAt(i) == parseRow(scan.rows[i + 1])

\* the rows of the result set the row loop looked at
Scanned == 0..(scan.scanned - 1)

\* the events of the row loop that concern row i
EventsOf(i) == {j \in 1..Len(scan.trace) : scan.trace[j].i = i}

Has(i, e) == \E j \in EventsOf(i) : scan.trace[j].e = e

\* row i was appended to the output or folded into the accumulator
Emitted(i) == Has(i, "push") \/ Has(i, "reduce")

\* C6: continued(value) is evaluated on each scanned row before the filter
\* and whatever the filter answers; if it returns false on a scanned row k,
\* no row after k is filtered, mapped, reduced or emitted.
C6_ContinuedBeforeFilter ==
  (FetchDone /\ isFunction(call.q.continued)) =>
    \A k \in Scanned :
      /\ \E j \in EventsOf(k) :
           /\ scan.trace[j].e = "continued"
           /\ \A j2 \in EventsOf(k) : j <= j2
      /\ ~ApplyContinued(call.q.continued, ValueAt(k)) =>
           /\ scan.scanned = k + 1
           /\ \A j \in 1..Len(scan.trace) : scan.trace[j].i <= k

\* continued returns false on a row the filter rejects, rows follow it, and
\* the row before it was emitted
C6_Witness ==
  /\ FetchDone
  /\ call.q.continued = "ne2"
  /\ call.q.filter = "odd"
  /\ \E k \in Scanned :
       /\ k > 0
       /\ ValueAt(k).id = Num(2)
       /\ k + 1 < Len(scan.rows)
       /\ Emitted(k - 1)
       /\ ~Has(k, "push")

\* C7 (as claimed): with max and skip given, fetch on a query with no filter
\* and no continued (LIMIT / OFFSET pushed down) delivers the same result as
\* the same fetch on the query with a filter that always returns true.
C7_PushdownEqualsPostFilter ==
  (/\ FetchDone
   /\ ~isFunction(call.q.filter)
   /\ ~isFunction(call.q.continued)
   /\ call.max.t = "number"
   /\ call.skip.t = "number") =>
    delivered =
      FetchResult(db, [call.q EXCEPT !.filter = "true"], call.max, call.skip)

\* C8 (as claimed): in collection mode fetch never delivers more than max
\* items, and the scan stops at the row on which the output reaches max.
C8_AtMostMax ==
  (FetchDone /\ ~isFunction(call.q.reduce) /\ isDef(call.max)) =>
    /\ ArrLen(delivered) <= call.max.v
    /\ (call.max.v > 0 /\ ArrLen(delivered) = call.max.v) =>
         Has(scan.scanned - 1, "push")

\* C9: with max and skip absent, fetch on a query with no filter delivers
\* the same rows in the same order as fetch on the same query with a filter
\* that never rejects.
C9_FilterTrueChangesNothing ==
  (/\ FetchDone
   /\ ~isFunction(call.q.filter)
   /\ ~isDef(call.max)
   /\ ~isDef(call.skip)) =>
    LET qt == [call.q EXCEPT !.filter = "true"]
    IN  /\ delivered = FetchResult(db, qt, Undef, Undef)
        /\ scan.rows = ExecuteSql(db, Plan(qt, Undef, Undef).sql)

\* a reverse scan of a key range that delivered several rows
C9_Witness ==
  /\ FetchDone
  /\ ~isFunction(call.q.filter)
  /\ ~isDef(call.max)
  /\ ~isDef(call.skip)
  /\ call.q.keyRange # NoRange
  /\ call.q.direction = "prev"
  /\ ~isFunction(call.q.reduce)
  /\ ~isFunction(call.q.map)
  /\ ArrLen(delivered) >= 2
  /\ delivered[0].id.v > delivered[1].id.v

\* the rows of the store of the call that lie in its key range
RowsOfRange ==
  LET column == IF call.q.index # "none" THEN call.q.index ELSE "id"
  IN  {r \in db[call.q.store_name] :
         call.q.keyRange = NoRange
           \/ InRange(call.q.keyRange, Column(r, column))}

\* how many rows before row i the filter of the call accepted
Rank(i) ==
  Cardinality({j \in 0..(i - 1) :
                 ~isFunction(call.q.filter)
                   \/ ApplyFilter(call.q.filter, ValueAt(j))})

\* C10: the command has LIMIT / OFFSET exactly when the query has neither a
\* filter nor a continued function (and max / a positive skip were given);
\* after a pushdown the row loop applies neither skip nor max again; with no
\* pushdown the command retrieves every row of the key range and skip / max
\* count only the rows the filter accepted.
C10_PushdownOnlyWithoutPredicates ==
  (op = "fetch" /\ sql # NoSql) =>
    LET plain == ~isFunction(call.q.filter) /\ ~isFunction(call.q.continued)
        skipv == IF call.skip.t = "number" THEN call.skip.v ELSE 0
    IN  /\ isDef(sql.limit) <=> (plain /\ isDef(call.max))
        /\ isDef(sql.limit) => sql.limit = call.max
        /\ isDef(sql.offset) <=> (plain /\ skipv > 0)
        /\ isDef(sql.offset) => sql.offset = call.skip
        /\ (FetchDone /\ plain) =>
             /\ scan.start = 0
             /\ scan.end = Undef
             /\ scan.scanned = Len(scan.rows)
             /\ \A i \in Scanned : Emitted(i)
        /\ (FetchDone /\ ~plain) =>
             /\ Len(scan.rows) = Cardinality(RowsOfRange)
             /\ \A i \in Scanned :
                  Emitted(i) =>
                    /\ ~isFunction(call.q.filter)
                         \/ ApplyFilter(call.q.filter, ValueAt(i))
                    /\ Rank(i) >= skipv

\* no pushdown: three rows retrieved, the first accepted row skipped, the
\* rejected row not counted, the second accepted row delivered
C10_Witness ==
  /\ FetchDone
  /\ call.q.filter = "odd"
  /\ call.max = Num(1)
  /\ call.skip = Num(1)
  /\ ~isFunction(call.q.reduce)
  /\ Len(scan.rows) = 3
  /\ scan.scanned = 3
  /\ ArrLen(delivered) = 1
  /\ Emitted(2)

\* rows a and b of a result set, a first, are in the order of the query:
\* ascending on the selected index, or on the primary key when no index is
\* selected, and descending when the direction is reverse
InQueryOrder(a, b) ==
  LET column == IF call.q.index # "none" THEN call.q.index ELSE "id"
  IN  IF call.q.direction = "prev"
      THEN Column(a, column) >= Column(b, column)
      ELSE Column(a, column) <= Column(b, column)

\* C20 (as claimed): the rows fetch works through are in ascending order of
\* the selected index or primary key, descending when the direction is
\* reverse, for stores with and without a key path.
C20_RowsInQueryOrder ==
  FetchDone =>
    \A i \in 1..Len(scan.rows) :
      \A j \in (i + 1)..Len(scan.rows) :
        InQueryOrder(scan.rows[i], scan.rows[j])

\* the calls of kind e the row loop made on row i
RowCalls(i, e) == {j \in EventsOf(i) : scan.trace[j].e = e}

\* the rows the row loop emitted
EmittedRows == {i \in Scanned : Emitted(i)}

\* C23: a scanned row is emitted (pushed or reduced) exactly when the filter
\* accepts its unmapped value and at least skip accepted rows precede it; map
\* is called once on each emitted row, after continued and filter of that
\* row, and on no other row; what is pushed is the mapped value.
C23_SkipCountsAcceptedRows ==
  FetchDone =>
    /\ \A i \in Scanned :
         /\ Emitted(i) <=>
              (Accepts(call.q, ValueAt(i)) /\ Rank(i) >= scan.start)
         /\ Cardinality(RowCalls(i, "map")) =
              (IF Emitted(i) /\ isFunction(call.q.map) THEN 1 ELSE 0)
         /\ Cardinality(RowCalls(i, "push") \cup RowCalls(i, "reduce")) <= 1
         /\ \A j \in RowCalls(i, "map") :
              /\ \A j2 \in RowCalls(i, "continued") \cup RowCalls(i, "filter") :
                   j2 < j
              /\ \A j2 \in RowCalls(i, "push") \cup RowCalls(i, "reduce") :
                   j < j2
    /\ \A j \in 1..Len(scan.trace) : scan.trace[j].i \in Scanned
    /\ ~isFunction(call.q.reduce) =>
         /\ ArrLen(delivered) = Cardinality(EmittedRows)
         /\ \A i \in EmittedRows :
              delivered[Rank(i) - scan.start] =
                (IF isFunction(call.q.map)
                 THEN ApplyMap(call.q.map, ValueAt(i)) ELSE ValueAt(i))

\* the filter rejects a row, an accepted row is skipped and not mapped, and
\* a later accepted row is mapped and emitted
C23_Witness ==
  /\ FetchDone
  /\ call.q.filter = "odd"
  /\ call.q.map = "m"
  /\ scan.start >= 1
  /\ \E i, j, k \in Scanned :
       /\ ~Accepts(call.q, ValueAt(i))
       /\ Accepts(call.q, ValueAt(j)) /\ ~Emitted(j)
       /\ RowCalls(j, "map") = {}
       /\ j < k /\ Emitted(k) /\ RowCalls(k, "map") # {}

RECURSIVE FirstAcc(_)
\* the accumulator the first call of reduce received, from what the last
\* call returned
FirstAcc(x) == IF x.t = "reduced" THEN FirstAcc(x.v[1]) ELSE x

\* C24 (as claimed): in reduce mode the first call of reduce receives
\* q.initial as its accumulator, and a fetch that emits no row delivers
\* q.initial; in collection mode an array of the emitted rows is delivered.
C24_AccumulatorStartsFromInitial ==
  FetchDone =>
    /\ isFunction(call.q.reduce) =>
         /\ FirstAcc(delivered) = call.q.initial
         /\ EmittedRows = {} => delivered = call.q.initial
    /\ ~isFunction(call.q.reduce) =>
         ArrLen(delivered) = Cardinality(EmittedRows)

\* C26 (as claimed): a command of fetch that has an OFFSET clause has a
\* LIMIT clause; fetch with max absent and skip > 0 on a query without
\* filter and continued delivers its result.
C26_OffsetOnlyWithLimit ==
  (op = "fetch" /\ sql # NoSql) =>
    /\ WellFormed(sql)
    /\ (/\ ~isFunction(call.q.filter)
        /\ ~isFunction(call.q.continued)
        /\ ~isDef(call.max)
        /\ call.skip.t = "number"
        /\ call.skip.v > 0) => errbacks = 0

(***************************************************************************)
(* Properties of the operations on one object and on whole stores.         *)
(***************************************************************************)
\* the operation in progress references a store that the schema lacks
ReferencesMissingStore ==
  \/ /\ op \in BatchOps \cup StoreOps
     /\ \E i \in DOMAIN items : ~getStore(items[i].store)
  \/ /\ op = "fetch"
     /\ ~getStore(call.q.store_name)

\* the operation in progress issued a native command
NativeIssued ==
  \/ \E i \in DOMAIN status : status[i] # "unsent"
  \/ sql # NoSql

\* C11 (as claimed): an operation that references a store absent from the
\* schema throws NotFoundError, and it issued no native command, also when
\* the missing store is not the first store it references.
C11_NotFoundBeforeNative ==
  ReferencesMissingStore => (thrown = "NotFoundError" /\ ~NativeIssued)

\* the object the round trip owes for obj put under key: obj with the key
\* under the key path and with the index field, when obj has it, as an integer
RoundTrip(obj, key) ==
  [id |-> key, age |-> IF isDef(obj.age) THEN parseInt(obj.age) ELSE obj.age]

\* C14 (as claimed): putObject(obj) followed by getById of the key it
\* delivered returns obj with its index field coerced to an integer, and
\* with no field that obj did not have.
C14_RoundTrip ==
  \A j \in 2..Len(log) :
    LET put == log[j - 1]
        get == log[j]
    IN  (/\ put.op = "putObject"
         /\ put.out = "callback"
         /\ get.op = "getById"
         /\ get.out = "callback"
         /\ get.items[0].store = put.items[0].store
         /\ get.items[0].id = put.value) =>
          get.value = RoundTrip(put.items[0].obj, put.value)

\* the database operation j of the log started from
DbBefore(j) == IF j = 1 THEN EmptyDb ELSE log[j - 1].db

\* no operation before operation j of the log was a delete
NoDeletes(j) ==
  \A i \in 1..(j - 1) :
    log[i].op \in {"putObject", "getById", "getByStore", "count"}

\* the puts into a store that succeeded before operation j of the log
PutsBefore(j, store) ==
  {i \in 1..(j - 1) :
     /\ log[i].op = "putObject"
     /\ log[i].out = "callback"
     /\ log[i].items[0].store = store}

\* count as operation j of the log delivered its result
Counted(j) == log[j].op = "count" /\ log[j].out = "callback"

\* C18 (as claimed): count returns 0 on an empty store, and N after N puts
\* into the store with no delete before.
C18_CountIsNumberOfPuts ==
  \A j \in 1..Len(log) :
    LET store == log[j].items[0].store
    IN  Counted(j) =>
          /\ log[j].db[store] = {} => log[j].value = Num(0)
          /\ NoDeletes(j) =>
               log[j].value = Num(Cardinality(PutsBefore(j, store)))

\* C18 (amended): count returns 0 on an empty store, and after puts into a
\* store that was empty, with no delete before, it returns the number of
\* distinct keys those puts delivered: a put under a key the store holds
\* replaces the object.
C18_CountIsDistinctKeys ==
  \A j \in 1..Len(log) :
    LET store == log[j].items[0].store
    IN  Counted(j) =>
          /\ log[j].db[store] = {} => log[j].value = Num(0)
          /\ NoDeletes(j) =>
               log[j].value =
                 Num(Cardinality({log[i].value : i \in PutsBefore(j, store)}))

\* two puts, one of them under a generated key, and then count delivers 2
C18_Witness ==
  /\ Len(log) = 3
  /\ PutsBefore(3, "s1") = {1, 2}
  /\ log[1].items[0].obj.id = Undef
  /\ Counted(3)
  /\ log[3].items[0].store = "s1"
  /\ log[3].value = Num(2)

C21_ErrorIsWrapped ==
  \A j \in 1..Len(log) :
    log[j].out = "errback" =>
      /\ log[j].value.t = "BackendError"
      /\ log[j].value # SQLError

\* the operations that write
WriteOps == {"putObject", "removeById", "clearById"}

\* the objects and the keys a write is compared with
OtherObjects == {PutPool[k] : k \in 1..3} \cup {Obj(Num(7), Num(20))}
OtherKeys == {Num(1), Num(7), Str(30)}

Listed(arr) == {arr[i].store : i \in DOMAIN arr}

\* C25: clearByStore issues the delete of store i + 1 only after the delete
\* of store i succeeded, one at a time; it calls the success handler only
\* after the last delete succeeded, and then every listed store is empty and
\* every other store is as it was; when a delete fails the error handler is
\* called once and no delete of a later store is issued.
C25_ClearByStoreInOrder ==
  /\ op = "clearByStore" =>
       /\ Cardinality(InFlight) <= 1
       /\ \A i \in DOMAIN status :
            (i > 0 /\ status[i] # "unsent") => status[i - 1] = "ok"
       /\ callbacks <= 1
       /\ callbacks = 1 => \A i \in DOMAIN status : status[i] = "ok"
       /\ Failed # {} =>
            /\ errbacks = 1
            /\ callbacks = 0
            /\ \A i \in Failed : \A k \in DOMAIN status :
                 k > i => status[k] = "unsent"
  /\ \A j \in 1..Len(log) :
       LET e == log[j]
           before == DbBefore(j)
       IN  (e.op = "clearByStore" /\ e.out = "callback") =>
             /\ DOMAIN e.db = DOMAIN before
             /\ \A s \in DOMAIN before :
                  e.db[s] = IF s \in Listed(e.items) THEN {} ELSE before[s]

\* clearByStore('s2') leaves the object of s1, and clearByStore() of the
\* three stores then empties s1
C25_Witness ==
  /\ Len(log) = 3
  /\ log[1].op = "putObject"
  /\ log[2].op = "clearByStore"
  /\ log[2].out = "callback"
  /\ Listed(log[2].items) = {"s2"}
  /\ log[2].db["s1"] # {}
  /\ log[3].op = "clearByStore"
  /\ log[3].out = "callback"
  /\ ArrLen(log[3].items) = 3
  /\ log[3].db["s1"] = {}
  /\ callbacks = 1

(***************************************************************************)
(* Properties of processWhereAsFilter.                                     *)
(***************************************************************************)
\* the objects the filters are tried on: the field absent, below, on,
\* between, on and above the bounds of the where conditions
TestObjects ==
  {Obj(Num(k), age) :
     k \in 1..2,
     age \in {Undef, Num(0), Num(10), Num(15), Num(20), Num(30)}}

\* obj[where.field] lies inside the range of the where condition
Inside(where, obj) ==
  LET value == Field(obj, where.field)
  IN  /\ isDef(where.lower) =>
           /\ value.t = "number"
           /\ IF where.lowerOpen THEN value.v > where.lower.v
              ELSE value.v >= where.lower.v
      /\ isDef(where.upper) =>
           /\ value.t = "number"
           /\ IF where.upperOpen THEN value.v < where.upper.v
              ELSE value.v <= where.upper.v

\* does a query whose filter is f let obj through: a filter that is not a
\* function lets every object through
Accepted(f, obj) == ~isFunctionValue(f) \/ CallFilter(f, obj)

\* C12 (as claimed): after processWhereAsFilter(where) on a query that had
\* no filter, the filter accepts an object exactly when obj[where.field]
\* lies inside the range of where.
C12_FilterIsTheRange ==
  (thisFilter.t # "none" /\ ~isFunctionValue(origFilter) /\ Len(applied) = 1) =>
    \A obj \in TestObjects :
      Accepted(thisFilter, obj) <=> Inside(applied[1], obj)

RECURSIVE Chain(_, _, _)
\* this.filter after processWhereAsFilter of ws[i], ws[i + 1], ...
Chain(filter, ws, i) ==
  IF i > Len(ws) THEN filter
  ELSE Chain(WhereAsFilter(filter, ws[i]), ws, i + 1)

\* the filter rejects what the filter the query was constructed with rejects
KeepsFilter ==
  \A obj \in TestObjects :
    ~Accepted(origFilter, obj) => ~Accepted(thisFilter, obj)

\* the filter rejects what any where condition processed rejects
KeepsWheres ==
  \A obj \in TestObjects :
    \A i \in 1..Len(applied) :
      ~Inside(applied[i], obj) => ~Accepted(thisFilter, obj)

\* the where conditions processed in any other order give the same predicate
AnyOrder ==
  \A p \in Permutations(1..Len(applied)) :
    \A obj \in TestObjects :
      Accepted(thisFilter, obj) <=>
        Accepted(Chain(origFilter, [i \in 1..Len(applied) |-> applied[p[i]]],
                       1),
                 obj)

\* C13 (as claimed): after any sequence of processWhereAsFilter the filter
\* rejects every object that the filter attached at first rejects and every
\* object that any where condition processed rejects, and it is the same
\* predicate for every order of the where conditions.
C13_FilterPreserved ==
  thisFilter.t # "none" => (KeepsFilter /\ KeepsWheres /\ AnyOrder)

(***************************************************************************)
(* Properties of doTransaction on the in-memory adapter.                   *)
(***************************************************************************)
\* the positions of the events e of call id
EventsAt(e, id) == {j \in 1..Len(events) : events[j].e = e /\ events[j].id = id}

\* call id of doTransaction ended, by its return or by an exception
Ended(id) == EventsAt("return", id) # {} \/ EventsAt("throw", id) # {}

\* the ids of the calls made so far
CallIds == 1..Cardinality(Calls)

\* C15 (as claimed): for every call of doTransaction, onCompleted is invoked
\* exactly once, with COMPLETE or ABORT: never twice, and once by the time
\* the call ended, also when the body threw.
C15_CompletedExactlyOnce ==
  \A id \in CallIds :
    /\ Cardinality(EventsAt("oncompleted", id)) <= 1
    /\ \A j \in EventsAt("oncompleted", id) :
         events[j].kind \in {"COMPLETE", "ABORT"}
    /\ Ended(id) => Cardinality(EventsAt("oncompleted", id)) = 1

\* C16 (as claimed): neither the body nor onCompleted of a call of
\* doTransaction runs before that call has returned.
C16_BodyAfterReturn ==
  \A id \in CallIds :
    \A j \in EventsAt("body", id) \cup EventsAt("oncompleted", id) :
      \E k \in EventsAt("return", id) : k < j

\* two units of work may not be active together: their scopes share a store
\* and one of them is read-write
Conflict(f, g) ==
  /\ f.scopes \cap g.scopes # {}
  /\ "readwrite" \in {f.mode, g.mode}

\* C17 (as claimed): two units of work whose scopes share a store and of
\* which one is read-write are never active at the same time, also when one
\* is submitted from inside the body of the other.
C17_NoConflictingActive ==
  \A i \in 1..Len(stack) :
    \A j \in (i + 1)..Len(stack) : ~Conflict(stack[i], stack[j])

=============================================================================
